---- MODULE Spec2Model ----
(***************************************************************************)
(* Model of prosperity_app.py, the Streamlit "Cost per Prosperity Unit     *)
(* (CPPG) Calculator".  The script is rerun from top to bottom every time  *)
(* a widget changes; one action of the model is one widget change followed *)
(* by the whole rerun.                                                     *)
(*                                                                         *)
(* Numbers.  The script computes with Python floats, i.e. IEEE-754         *)
(* binary64 with round-to-nearest-even.  A float is modelled exactly, as   *)
(* one of the records                                                      *)
(*     [k |-> "num", s |-> 1 or -1, m |-> M, e |-> E]   value s * M * 2^E  *)
(*     [k |-> "inf", s |-> 1 or -1]                      +inf / -inf       *)
(*     [k |-> "nan"]                                                       *)
(* where M is a natural number written as a sequence of base-2^15 digits,  *)
(* least significant first, without leading zero digits (TLC integers are  *)
(* 32 bits wide, a binary64 significand is 53).  A non-zero number is kept *)
(* canonical: M is odd.  Zero is [k |-> "num", s |-> 1, m |-> <<>>,        *)
(* e |-> 0]; the sign of a zero is not tracked (no statement of the script *)
(* distinguishes -0.0 from 0.0 except the text of a formatted number,      *)
(* which is not modelled).                                                 *)
(***************************************************************************)
EXTENDS Integers, Sequences, FiniteSets, TLC

(***************************************************************************)
(* Natural numbers of arbitrary size: base-2^15 digit sequences.           *)
(***************************************************************************)
LimbBits == 15

Base == 32768

Pow2(k) == 2 ^ k

Max(a, b) == IF a >= b THEN a ELSE b

Min(a, b) == IF a <= b THEN a ELSE b

Limb(a, i) == IF i >= 1 /\ i <= Len(a) THEN a[i] ELSE 0

RECURSIVE BNorm(_)
BNorm(a) ==
    IF a = <<>> THEN <<>>
    ELSE IF a[Len(a)] = 0 THEN BNorm(SubSeq(a, 1, Len(a) - 1))
    ELSE a

RECURSIVE BFromInt(_)
BFromInt(n) == IF n = 0 THEN <<>> ELSE <<n % Base>> \o BFromInt(n \div Base)

RECURSIVE SmallBitLen(_)
SmallBitLen(d) == IF d = 0 THEN 0 ELSE 1 + SmallBitLen(d \div 2)

BitLen(a) == IF a = <<>> THEN 0 ELSE LimbBits * (Len(a) - 1) + SmallBitLen(a[Len(a)])

BBit(a, i) == (Limb(a, (i \div LimbBits) + 1) \div Pow2(i % LimbBits)) % 2

RECURSIVE BAddC(_, _, _, _)
BAddC(a, b, i, c) ==
    IF i > Len(a) /\ i > Len(b)
    THEN IF c = 0 THEN <<>> ELSE <<c>>
    ELSE LET t == Limb(a, i) + Limb(b, i) + c
         IN  <<t % Base>> \o BAddC(a, b, i + 1, t \div Base)

BAdd(a, b) == BAddC(a, b, 1, 0)

RECURSIVE BSubC(_, _, _, _)
BSubC(a, b, i, c) ==
    IF i > Len(a) THEN <<>>
    ELSE LET t == Limb(a, i) - Limb(b, i) - c
         IN  IF t < 0 THEN <<t + Base>> \o BSubC(a, b, i + 1, 1)
             ELSE <<t>> \o BSubC(a, b, i + 1, 0)

\* a - b for a >= b
BSub(a, b) == BNorm(BSubC(a, b, 1, 0))

RECURSIVE BCmpFrom(_, _, _)
BCmpFrom(a, b, i) ==
    IF i = 0 THEN 0
    ELSE IF a[i] > b[i] THEN 1
    ELSE IF a[i] < b[i] THEN -1
    ELSE BCmpFrom(a, b, i - 1)

\* -1, 0 or 1 as a < b, a = b, a > b
BCmp(a, b) ==
    IF Len(a) > Len(b) THEN 1
    ELSE IF Len(a) < Len(b) THEN -1
    ELSE BCmpFrom(a, b, Len(a))

RECURSIVE BMulSmallC(_, _, _, _)
BMulSmallC(a, d, i, c) ==
    IF i > Len(a)
    THEN IF c = 0 THEN <<>> ELSE <<c>>
    ELSE LET t == a[i] * d + c
         IN  <<t % Base>> \o BMulSmallC(a, d, i + 1, t \div Base)

\* a * d for a digit 0 <= d < 2^15
BMulSmall(a, d) == IF d = 0 THEN <<>> ELSE BMulSmallC(a, d, 1, 0)

Zeros(n) == [i \in 1..n |-> 0]

RECURSIVE BMulFrom(_, _, _)
BMulFrom(a, b, i) ==
    IF i > Len(a) THEN <<>>
    ELSE BAdd(IF a[i] = 0 THEN <<>> ELSE Zeros(i - 1) \o BMulSmall(b, a[i]),
              BMulFrom(a, b, i + 1))

BMul(a, b) == IF a = <<>> \/ b = <<>> THEN <<>> ELSE BMulFrom(a, b, 1)

\* a * 2^k
BShl(a, k) ==
    IF a = <<>> THEN <<>>
    ELSE Zeros(k \div LimbBits) \o BMulSmall(a, Pow2(k % LimbBits))

\* floor(a / 2^k)
BShr(a, k) ==
    LET q == k \div LimbBits
        r == k % LimbBits
        n == Len(a) - q
    IN  IF n <= 0 THEN <<>>
        ELSE BNorm([i \in 1..n |->
                 (a[i + q] \div Pow2(r))
                 + (Limb(a, i + q + 1) % Pow2(r)) * Pow2(LimbBits - r)])

\* a mod 2^k /= 0
BLowNonZero(a, k) ==
    \E i \in 1..Len(a) :
        \/ i <= k \div LimbBits /\ a[i] /= 0
        \/ i = (k \div LimbBits) + 1 /\ a[i] % Pow2(k % LimbBits) /= 0

RECURSIVE SmallTrailingZeros(_)
SmallTrailingZeros(d) == IF d % 2 = 1 THEN 0 ELSE 1 + SmallTrailingZeros(d \div 2)

RECURSIVE BTrailingZerosFrom(_, _)
BTrailingZerosFrom(a, i) ==
    IF a[i] = 0 THEN LimbBits + BTrailingZerosFrom(a, i + 1)
    ELSE SmallTrailingZeros(a[i])

\* the number of trailing zero bits of a > 0
BTrailingZeros(a) == BTrailingZerosFrom(a, 1)

RECURSIVE QDigit(_, _, _)
\* the largest q <= guess with q * b <= r
QDigit(r, b, guess) ==
    IF BCmp(BMulSmall(b, guess), r) > 0 THEN QDigit(r, b, guess - 1) ELSE guess

RECURSIVE BDivModFrom(_, _, _, _)

BDivAppend(rest, qd) == <<Append(rest[1], qd), rest[2]>>

BDivDigit(a, b, i, r1, qd) ==
    BDivAppend(BDivModFrom(a, b, i - 1, BSub(r1, BMulSmall(b, qd))), qd)

\* the next quotient digit, guessed from the two leading digits of r1
BDivStep(a, b, i, r1) ==
    BDivDigit(a, b, i, r1,
              QDigit(r1, b,
                     Min(Base - 1,
                         (Limb(r1, Len(b) + 1) * Base + Limb(r1, Len(b)))
                             \div b[Len(b)])))

\* long division of the digits a[1..i] below the running remainder r, by b
\* (b's leading digit is >= 2^14): <<quotient digits, remainder>>
BDivModFrom(a, b, i, r) ==
    IF i = 0 THEN <<<<>>, r>>
    ELSE BDivStep(a, b, i, BNorm(<<a[i]>> \o r))

BDivModStart(a1, b1) == BDivModFrom(a1, b1, Len(a1), <<>>)

BDivModUnshift(qr, t) == <<BNorm(qr[1]), BShr(qr[2], t)>>

\* divisor and dividend scaled by 2^t so that b's leading digit is >= 2^14
BDivModShifted(a, b, t) == BDivModUnshift(BDivModStart(BShl(a, t), BShl(b, t)), t)

\* <<floor(a / b), a mod b>> for b > 0
BDivMod(a, b) ==
    BDivModShifted(a, b, (LimbBits - (BitLen(b) % LimbBits)) % LimbBits)

(***************************************************************************)
(* Python floats (IEEE-754 binary64, round to nearest, ties to even).      *)
(***************************************************************************)
MantBits == 53

\* the exponent of the smallest positive subnormal, 2^-1074
MinExp == -1074

\* a finite float is below 2^1024
MaxExp == 1024

Zero == [k |-> "num", s |-> 1, m |-> <<>>, e |-> 0]

Inf(sign) == [k |-> "inf", s |-> sign]

NaN == [k |-> "nan"]

\* Python's None, and the value of a name the run did not assign
None == [k |-> "None"]

Unset == [k |-> "unset"]

\* what a float operation raises instead of returning
ZeroDivisionError == [k |-> "ZeroDivisionError"]

IsZero(x) == x.k = "num" /\ x.m = <<>>

CanonBy(sign, M, E, tz) ==
    [k |-> "num", s |-> sign, m |-> BShr(M, tz), e |-> E + tz]

\* s * M * 2^E for M > 0, as a canonical record (M odd)
Canon(sign, M, E) == CanonBy(sign, M, E, BTrailingZeros(M))

\* s * M * 2^E for a significand M of at most MantBits bits: zero, a finite
\* float, or infinity when the magnitude is 2^1024 or more
FPack(sign, M, E) ==
    IF M = <<>> THEN Zero
    ELSE IF BitLen(M) + E > MaxExp THEN Inf(sign)
    ELSE Canon(sign, M, E)

\* q = floor(N / 2^shift), rounded to nearest, ties to even
RoundedShift(N, shift, sticky, q) ==
    IF /\ BBit(N, shift - 1) = 1
       /\ (sticky \/ BLowNonZero(N, shift - 1) \/ BBit(q, 0) = 1)
    THEN BAdd(q, <<1>>)
    ELSE q

FRoundBy(sign, N, E, sticky, shift) ==
    IF shift <= 0 THEN FPack(sign, N, E)
    ELSE FPack(sign, RoundedShift(N, shift, sticky, BShr(N, shift)), E + shift)

\* The float nearest to sign * (N + f) * 2^E, where 0 <= f < 1 and f > 0 iff
\* sticky; ties go to the even significand, values of magnitude 2^1024 or
\* more after rounding go to infinity.  When sticky, N has more than MantBits
\* bits.
FRound(sign, N, E, sticky) ==
    IF N = <<>> THEN Zero
    ELSE FRoundBy(sign, N, E, sticky, Max(BitLen(N) - MantBits, MinExp - E))

\* float(n) for a Python int n (exact below 2^53)
FromInt(n) ==
    IF n = 0 THEN Zero
    ELSE IF n > 0 THEN FRound(1, BFromInt(n), 0, FALSE)
    ELSE FRound(-1, BFromInt(-n), 0, FALSE)

FNeg(x) ==
    IF x.k = "nan" \/ IsZero(x) THEN x
    ELSE [x EXCEPT !.s = -x.s]

FSubMags(sx, a, sy, b, E, c) ==
    FRound(IF c >= 0 THEN sx ELSE sy,
           IF c >= 0 THEN BSub(a, b) ELSE BSub(b, a), E, FALSE)

\* sx * a * 2^E + sy * b * 2^E
FAddMags(sx, a, sy, b, E) ==
    IF sx = sy THEN FRound(sx, BAdd(a, b), E, FALSE)
    ELSE FSubMags(sx, a, sy, b, E, BCmp(a, b))

FAddAligned(x, y, E) ==
    FAddMags(x.s, BShl(x.m, x.e - E), y.s, BShl(y.m, y.e - E), E)

\* x + y
FAdd(x, y) ==
    IF x.k = "nan" \/ y.k = "nan" THEN NaN
    ELSE IF x.k = "inf" THEN (IF y.k = "inf" /\ y.s /= x.s THEN NaN ELSE x)
    ELSE IF y.k = "inf" THEN y
    ELSE IF IsZero(x) THEN y
    ELSE IF IsZero(y) THEN x
    \* an operand below a quarter of the other's last place rounds away
    ELSE IF (BitLen(x.m) + x.e) - (BitLen(y.m) + y.e) > MantBits + 2 THEN x
    ELSE IF (BitLen(y.m) + y.e) - (BitLen(x.m) + x.e) > MantBits + 2 THEN y
    ELSE FAddAligned(x, y, Min(x.e, y.e))

\* x - y
FSub(x, y) == FAdd(x, FNeg(y))

\* x * y
FMul(x, y) ==
    IF x.k = "nan" \/ y.k = "nan" THEN NaN
    ELSE IF x.k = "inf" \/ y.k = "inf"
         THEN (IF IsZero(x) \/ IsZero(y) THEN NaN ELSE Inf(x.s * y.s))
    ELSE IF IsZero(x) \/ IsZero(y) THEN Zero
    ELSE FRound(x.s * y.s, BMul(x.m, y.m), x.e + y.e, FALSE)

FDivRounded(x, y, sh, qr) ==
    FRound(x.s * y.s, qr[1], x.e - y.e - sh, qr[2] /= <<>>)

\* the quotient of the significands to MantBits + 2 or + 3 bits, then rounded
FDivBy(x, y, sh) == FDivRounded(x, y, sh, BDivMod(BShl(x.m, sh), y.m))

\* x / y; a zero divisor raises ZeroDivisionError whatever the dividend
FDiv(x, y) ==
    IF IsZero(y) THEN ZeroDivisionError
    ELSE IF x.k = "nan" \/ y.k = "nan" THEN NaN
    ELSE IF x.k = "inf" THEN (IF y.k = "inf" THEN NaN ELSE Inf(x.s * y.s))
    ELSE IF y.k = "inf" \/ IsZero(x) THEN Zero
    ELSE FDivBy(x, y, MantBits + 2 + BitLen(y.m) - BitLen(x.m))

\* x > 0
FGt0(x) ==
    \/ x.k = "inf" /\ x.s = 1
    \/ x.k = "num" /\ x.m /= <<>> /\ x.s = 1

\* x <= 0
FLe0(x) ==
    \/ x.k = "inf" /\ x.s = -1
    \/ x.k = "num" /\ (x.m = <<>> \/ x.s = -1)

\* x < y: the difference of two floats rounds to zero only when they are equal
FLt(x, y) ==
    IF x.k = "inf" /\ y.k = "inf" THEN x.s < y.s
    ELSE FGt0(FSub(y, x))

\* x <= y
FLe(x, y) == x.k /= "nan" /\ y.k /= "nan" /\ (x = y \/ FLt(x, y))

(***************************************************************************)
(* The float literals of the script and the values typed into its widgets. *)
(***************************************************************************)
\* 1 and 100, the int literals of lines 46, 72-74 and 92, as floats
One == FromInt(1)

Hundred == FromInt(100)

\* the widgets' default values (value=...)
DefaultCost == FromInt(1000)

DefaultPopulation == 1000

\* 0.1
DefaultMathSd == [k |-> "num", s |-> 1, m |-> <<19661, 6553, 13107, 102>>, e |-> -55]

DefaultGradRatePp == FromInt(5)

DefaultCollegeEnrollPp == FromInt(3)

DefaultDiscount == FromInt(3)

DefaultMathGainPerSd == FromInt(80000)

DefaultEarningsGainHs == FromInt(300000)

DefaultEarningsGainCollege == FromInt(600000)

\* 0.3
DefaultFadeout == [k |-> "num", s |-> 1, m |-> <<13107, 26214, 19660, 153>>, e |-> -54]

DefaultScenarioMultiplier == One

\* 2^-1074, the smallest positive float (5e-324)
Tiny == [k |-> "num", s |-> 1, m |-> <<1>>, e |-> -1074]

\* 0.06999999999999998, the float just below 0.1 * 1 * (1 - 0.3)
CostBelowGain == [k |-> "num", s |-> 1, m |-> <<10485, 7864, 22282, 71>>, e |-> -55]

\* -0.1
MinusTenth == [k |-> "num", s |-> -1, m |-> <<19661, 6553, 13107, 102>>, e |-> -55]

\* 3.5
ThreeAndHalf == [k |-> "num", s |-> 1, m |-> <<7>>, e |-> -1]

\* 0.5 and 0.9: positions of the scenario slider (0.5 to 1.5 in steps of 0.1)
Half == [k |-> "num", s |-> 1, m |-> <<1>>, e |-> -1]

NineTenths == [k |-> "num", s |-> 1, m |-> <<19661, 6553, 13107, 230>>, e |-> -53]

(***************************************************************************)
(* The values the model types into each widget.  cost_per_person has       *)
(* min_value=0.0 and population min_value=1; the other number inputs are   *)
(* unbounded; the fade-out slider runs from 0.0 to 1.0 and the scenario    *)
(* slider from 0.5 to 1.5.                                                 *)
(***************************************************************************)
MaxPopulation == 1

CostValues == {Zero, DefaultCost, CostBelowGain}

PopulationValues == (1..MaxPopulation) \cup {DefaultPopulation}

MathSdValues == {DefaultMathSd, MinusTenth, Tiny}

GradRatePpValues == {Zero, DefaultGradRatePp}

CollegeEnrollPpValues == {Zero, DefaultCollegeEnrollPp}

DiscountValues == {DefaultDiscount, ThreeAndHalf}

MathGainPerSdValues == {One, DefaultMathGainPerSd}

EarningsGainHsValues == {DefaultEarningsGainHs}

EarningsGainCollegeValues == {DefaultEarningsGainCollege}

FadeoutValues == {DefaultFadeout, One}

ScenarioValues == {Half, NineTenths, One}

(***************************************************************************)
(* One run of the script, lines 70-118, as a function of the widgets'      *)
(* values.  The result names every variable the run assigns (Unset for a   *)
(* name the run never reached), the elements it rendered, and the          *)
(* exception that ended it, if any.                                        *)
(***************************************************************************)
\* line 46: the discount widget's value / 100
DiscountRate(disc) == FDiv(disc, Hundred)

\* a plausible slip of line 72: the gain that fades instead of the gain that stays
GainFromMathFaded(msd, mgain, fade) == FMul(FMul(msd, mgain), fade)

\* a plausible slip of line 72: fadeout_factor - 1 for 1 - fadeout_factor
GainFromMathNegated(msd, mgain, fade) == FMul(FMul(msd, mgain), FSub(fade, One))

\* line 72
GainFromMath(msd, mgain, fade) == FMul(FMul(msd, mgain), FSub(One, fade))

\* line 73
GainFromGradRate(grpp, ehs) == FMul(FDiv(grpp, Hundred), ehs)

\* line 74
GainFromCollege(cepp, ecol) == FMul(FDiv(cepp, Hundred), ecol)

\* a plausible slip of line 76: the last gain subtracted
TotalGainLessCollege(gmath, ggrad, gcoll) == FSub(FAdd(gmath, ggrad), gcoll)

\* line 76
TotalGainPerPerson(gmath, ggrad, gcoll) == FAdd(FAdd(gmath, ggrad), gcoll)

\* a plausible slip of line 79: >= for >
CppgGuardedAtZero(cost, total) ==
    IF FGt0(total) \/ IsZero(total) THEN FDiv(cost, total) ELSE None

\* line 79
Cppg(cost, total) == IF FGt0(total) THEN FDiv(cost, total) ELSE None

\* line 92
Roi(c) == FDiv(One, c)

\* line 95
TotalCost(cost, pop) == FMul(cost, FromInt(pop))

\* line 96
TotalGain(total, pop) == FMul(total, FromInt(pop))

\* a plausible slip of line 97: the operands exchanged
NetGainSwapped(tgain, tcost) == FSub(tcost, tgain)

\* line 97
NetGain(tgain, tcost) == FSub(tgain, tcost)

\* a plausible slip of line 113: the multiplier added, not multiplied
AdjGainAdded(total, mult) == FAdd(total, mult)

\* line 113
AdjGain(total, mult) == FMul(total, mult)

\* line 114
AdjCppg(cost, again) == IF FGt0(again) THEN FDiv(cost, again) ELSE None

\* lines 89, 93, 100-102, 116-117: a float formats, None raises TypeError
FormatFails(x) == x = None

\* lines 115-118: the scenario text, or the TypeError of formatting None
ScenarioText(st, acppg) ==
    IF FormatFails(acppg)
    THEN [st EXCEPT !.adj_cppg = acppg, !.fault = "TypeError"]
    ELSE [st EXCEPT !.adj_cppg = acppg, !.shown = @ \cup {"adjusted_cppg"}]

\* line 114
ScenarioCppg(st, cost) == ScenarioText(st, AdjCppg(cost, st.adj_gain))

\* lines 105-113
Scenario(st, cost, mult) ==
    ScenarioCppg([st EXCEPT !.scenario_multiplier = mult,
                            !.adj_gain = AdjGain(st.total_gain_per_person, mult),
                            !.shown = @ \cup {"scenario_slider"}],
                 cost)

\* lines 97-102
CohortNet(st, cost, mult) ==
    Scenario([st EXCEPT !.net_gain = NetGain(st.total_gain, st.total_cost),
                        !.shown = @ \cup {"cohort_totals"}],
             cost, mult)

\* lines 93-96
Cohort(st, cost, pop, mult) ==
    CohortNet([st EXCEPT !.total_cost = TotalCost(cost, pop),
                         !.total_gain = TotalGain(st.total_gain_per_person, pop),
                         !.shown = @ \cup {"roi"}],
              cost, mult)

\* line 92: the ZeroDivisionError of 1 / 0.0 ends the run
AfterRoi(st, r, cost, pop, mult) ==
    IF r = ZeroDivisionError THEN [st EXCEPT !.fault = "ZeroDivisionError"]
    ELSE Cohort([st EXCEPT !.roi = r], cost, pop, mult)

\* lines 87-92: the CPPG metric, or the TypeError of formatting None
Metrics(st, cost, pop, mult) ==
    IF FormatFails(st.cppg) THEN [st EXCEPT !.fault = "TypeError"]
    ELSE AfterRoi([st EXCEPT !.shown = {"cppg"}], Roi(st.cppg), cost, pop, mult)

\* lines 84-118
Output(st, cost, pop, mult) ==
    IF FLe0(st.total_gain_per_person) THEN [st EXCEPT !.shown = {"error"}]
    ELSE Metrics(st, cost, pop, mult)

\* lines 76-79, and the names a run has not assigned by then
Ratio(cost, gmath, ggrad, gcoll, total) ==
    [discount_rate |-> Unset, gain_from_math |-> gmath,
     gain_from_grad_rate |-> ggrad, gain_from_college |-> gcoll,
     total_gain_per_person |-> total, cppg |-> Cppg(cost, total),
     roi |-> Unset, total_cost |-> Unset, total_gain |-> Unset,
     net_gain |-> Unset, scenario_multiplier |-> Unset,
     adj_gain |-> Unset, adj_cppg |-> Unset,
     shown |-> {}, fault |-> "none"]

\* line 76
Gains(cost, gmath, ggrad, gcoll) ==
    Ratio(cost, gmath, ggrad, gcoll, TotalGainPerPerson(gmath, ggrad, gcoll))

\* lines 70-118
Compute(cost, pop, msd, grpp, cepp, mgain, ehs, ecol, fade, mult) ==
    Output(Gains(cost, GainFromMath(msd, mgain, fade),
                 GainFromGradRate(grpp, ehs), GainFromCollege(cepp, ecol)),
           cost, pop, mult)

\* a plausible slip: the discount rate applied to the test-score effect
ScriptDiscounted(cost, pop, msd, grpp, cepp, disc, mgain, ehs, ecol, fade, mult) ==
    [Compute(cost, pop, FMul(msd, FSub(One, DiscountRate(disc))), grpp, cepp,
             mgain, ehs, ecol, fade, mult)
        EXCEPT !.discount_rate = DiscountRate(disc)]

\* lines 46 and 70-118: discount_rate is computed and read by nothing
Script(cost, pop, msd, grpp, cepp, disc, mgain, ehs, ecol, fade, mult) ==
    [Compute(cost, pop, msd, grpp, cepp, mgain, ehs, ecol, fade, mult)
        EXCEPT !.discount_rate = DiscountRate(disc)]

(***************************************************************************)
(* The state: the widgets' values, and what the last run computed.         *)
(***************************************************************************)
VARIABLES cost_per_person, population, math_sd, grad_rate_pp,
          college_enroll_pp, discount_input, math_gain_per_sd,
          earnings_gain_hs_vs_dropout, earnings_gain_college_vs_hs,
          fadeout_factor, out

widgets == <<cost_per_person, population, math_sd, grad_rate_pp,
             college_enroll_pp, discount_input, math_gain_per_sd,
             earnings_gain_hs_vs_dropout, earnings_gain_college_vs_hs,
             fadeout_factor>>

vars == <<widgets, out>>

\* The scenario slider exists only in a run that reaches line 106.  A widget
\* that a run does not create loses its value: the next run that creates it
\* starts from value=1.0.
SliderValue ==
    IF "scenario_slider" \in out.shown THEN out.scenario_multiplier
    ELSE DefaultScenarioMultiplier

\* the rerun that follows a change of the widgets
Rerun(mult) ==
    out' = Script(cost_per_person', population', math_sd', grad_rate_pp',
                  college_enroll_pp', discount_input', math_gain_per_sd',
                  earnings_gain_hs_vs_dropout', earnings_gain_college_vs_hs',
                  fadeout_factor', mult)

Init ==
    /\ cost_per_person = DefaultCost
    /\ population = DefaultPopulation
    /\ math_sd = DefaultMathSd
    /\ grad_rate_pp = DefaultGradRatePp
    /\ college_enroll_pp = DefaultCollegeEnrollPp
    /\ discount_input = DefaultDiscount
    /\ math_gain_per_sd = DefaultMathGainPerSd
    /\ earnings_gain_hs_vs_dropout = DefaultEarningsGainHs
    /\ earnings_gain_college_vs_hs = DefaultEarningsGainCollege
    /\ fadeout_factor = DefaultFadeout
    /\ out = Script(DefaultCost, DefaultPopulation, DefaultMathSd,
                    DefaultGradRatePp, DefaultCollegeEnrollPp, DefaultDiscount,
                    DefaultMathGainPerSd, DefaultEarningsGainHs,
                    DefaultEarningsGainCollege, DefaultFadeout,
                    DefaultScenarioMultiplier)

SetCostPerPerson ==
    \E v \in CostValues :
        /\ cost_per_person' = v
        /\ UNCHANGED <<population, math_sd, grad_rate_pp, college_enroll_pp,
                       discount_input, math_gain_per_sd,
                       earnings_gain_hs_vs_dropout,
                       earnings_gain_college_vs_hs, fadeout_factor>>
        /\ Rerun(SliderValue)

SetPopulation ==
    \E v \in PopulationValues :
        /\ population' = v
        /\ UNCHANGED <<cost_per_person, math_sd, grad_rate_pp,
                       college_enroll_pp, discount_input, math_gain_per_sd,
                       earnings_gain_hs_vs_dropout,
                       earnings_gain_college_vs_hs, fadeout_factor>>
        /\ Rerun(SliderValue)

SetMathSd ==
    \E v \in MathSdValues :
        /\ math_sd' = v
        /\ UNCHANGED <<cost_per_person, population, grad_rate_pp,
                       college_enroll_pp, discount_input, math_gain_per_sd,
                       earnings_gain_hs_vs_dropout,
                       earnings_gain_college_vs_hs, fadeout_factor>>
        /\ Rerun(SliderValue)

SetGradRatePp ==
    \E v \in GradRatePpValues :
        /\ grad_rate_pp' = v
        /\ UNCHANGED <<cost_per_person, population, math_sd,
                       college_enroll_pp, discount_input, math_gain_per_sd,
                       earnings_gain_hs_vs_dropout,
                       earnings_gain_college_vs_hs, fadeout_factor>>
        /\ Rerun(SliderValue)

SetCollegeEnrollPp ==
    \E v \in CollegeEnrollPpValues :
        /\ college_enroll_pp' = v
        /\ UNCHANGED <<cost_per_person, population, math_sd, grad_rate_pp,
                       discount_input, math_gain_per_sd,
                       earnings_gain_hs_vs_dropout,
                       earnings_gain_college_vs_hs, fadeout_factor>>
        /\ Rerun(SliderValue)

SetDiscountRate ==
    \E v \in DiscountValues :
        /\ discount_input' = v
        /\ UNCHANGED <<cost_per_person, population, math_sd, grad_rate_pp,
                       college_enroll_pp, math_gain_per_sd,
                       earnings_gain_hs_vs_dropout,
                       earnings_gain_college_vs_hs, fadeout_factor>>
        /\ Rerun(SliderValue)

SetMathGainPerSd ==
    \E v \in MathGainPerSdValues :
        /\ math_gain_per_sd' = v
        /\ UNCHANGED <<cost_per_person, population, math_sd, grad_rate_pp,
                       college_enroll_pp, discount_input,
                       earnings_gain_hs_vs_dropout,
                       earnings_gain_college_vs_hs, fadeout_factor>>
        /\ Rerun(SliderValue)

SetEarningsGainHs ==
    \E v \in EarningsGainHsValues :
        /\ earnings_gain_hs_vs_dropout' = v
        /\ UNCHANGED <<cost_per_person, population, math_sd, grad_rate_pp,
                       college_enroll_pp, discount_input, math_gain_per_sd,
                       earnings_gain_college_vs_hs, fadeout_factor>>
        /\ Rerun(SliderValue)

SetEarningsGainCollege ==
    \E v \in EarningsGainCollegeValues :
        /\ earnings_gain_college_vs_hs' = v
        /\ UNCHANGED <<cost_per_person, population, math_sd, grad_rate_pp,
                       college_enroll_pp, discount_input, math_gain_per_sd,
                       earnings_gain_hs_vs_dropout, fadeout_factor>>
        /\ Rerun(SliderValue)

SetFadeoutFactor ==
    \E v \in FadeoutValues :
        /\ fadeout_factor' = v
        /\ UNCHANGED <<cost_per_person, population, math_sd, grad_rate_pp,
                       college_enroll_pp, discount_input, math_gain_per_sd,
                       earnings_gain_hs_vs_dropout,
                       earnings_gain_college_vs_hs>>
        /\ Rerun(SliderValue)

\* the scenario slider can be moved only while it is on the page
SetScenarioMultiplier ==
    /\ "scenario_slider" \in out.shown
    /\ \E v \in ScenarioValues :
        /\ UNCHANGED widgets
        /\ Rerun(v)

Next ==
    \/ SetCostPerPerson
    \/ SetPopulation
    \/ SetMathSd
    \/ SetGradRatePp
    \/ SetCollegeEnrollPp
    \/ SetDiscountRate
    \/ SetMathGainPerSd
    \/ SetEarningsGainHs
    \/ SetEarningsGainCollege
    \/ SetFadeoutFactor
    \/ SetScenarioMultiplier

Spec == Init /\ [][Next]_vars

(***************************************************************************)
(* Vocabulary of the properties.                                           *)
(***************************************************************************)
IsFloat(x) == x.k \in {"num", "inf", "nan"}

\* a finite float of magnitude at least 2^-1022: not zero, not subnormal
IsNormal(x) == x.k = "num" /\ x.m /= <<>> /\ BitLen(x.m) + x.e > -1022

FAbs(x) == IF x.k = "nan" THEN x ELSE [x EXCEPT !.s = 1]

\* 2^50
TwoPow50 == [k |-> "num", s |-> 1, m |-> <<1>>, e |-> 50]

\* |a - b| <= 2^-50 * |a|
Close(a, b) == FLe(FMul(FAbs(FSub(a, b)), TwoPow50), FAbs(a))

\* the multiplier the last run read, when it reached the slider
LastMultiplier ==
    IF out.scenario_multiplier = Unset THEN DefaultScenarioMultiplier
    ELSE out.scenario_multiplier

\* total_gain_per_person for the present conversion factors and other effects
TotalFor(msd, grpp, cepp) ==
    TotalGainPerPerson(
        GainFromMath(msd, math_gain_per_sd, fadeout_factor),
        GainFromGradRate(grpp, earnings_gain_hs_vs_dropout),
        GainFromCollege(cepp, earnings_gain_college_vs_hs))

\* the inputs of the end-to-end example (they are the widgets' defaults)
ExampleInputs ==
    /\ math_sd = DefaultMathSd
    /\ math_gain_per_sd = FromInt(80000)
    /\ fadeout_factor = DefaultFadeout
    /\ grad_rate_pp = FromInt(5)
    /\ earnings_gain_hs_vs_dropout = FromInt(300000)
    /\ college_enroll_pp = FromInt(3)
    /\ earnings_gain_college_vs_hs = FromInt(600000)

(***************************************************************************)
(* C1.  cppg is a number exactly when total_gain_per_person > 0, and then  *)
(* it is cost_per_person / total_gain_per_person; when the gain is <= 0    *)
(* cppg is None, the run renders the error message and nothing else, and   *)
(* no roi is computed.                                                     *)
(***************************************************************************)
C1_CppgDefinedIffGainPositive ==
    LET t == out.total_gain_per_person
    IN  /\ IsFloat(out.cppg) <=> FGt0(t)
        /\ FGt0(t) => out.cppg = FDiv(cost_per_person, t)
        /\ FLe0(t) => /\ out.cppg = None
                      /\ out.roi = Unset
                      /\ out.shown = {"error"}
                      /\ out.fault = "none"

\* the boundary of the guard: a gain of exactly zero
C1_Witness ==
    /\ IsZero(out.total_gain_per_person)
    /\ out.cppg = None
    /\ out.shown = {"error"}

(***************************************************************************)
(* C2.  total_gain_per_person is the sum of the three gains as the         *)
(* formulas give them (evaluated left to right in floats), and the example *)
(* inputs give exactly 5600, 15000, 18000 and 38600.                       *)
(***************************************************************************)
C2_TotalGainFormula ==
    /\ out.total_gain_per_person =
          FAdd(FAdd(FMul(FMul(math_sd, math_gain_per_sd),
                         FSub(One, fadeout_factor)),
                    FMul(FDiv(grad_rate_pp, Hundred),
                         earnings_gain_hs_vs_dropout)),
               FMul(FDiv(college_enroll_pp, Hundred),
                    earnings_gain_college_vs_hs))
    /\ ExampleInputs =>
          /\ out.gain_from_math = FromInt(5600)
          /\ out.gain_from_grad_rate = FromInt(15000)
          /\ out.gain_from_college = FromInt(18000)
          /\ out.total_gain_per_person = FromInt(38600)

C2_Witness ==
    /\ ExampleInputs
    /\ out.total_gain_per_person = FromInt(38600)
    /\ out.fault = "none"

(***************************************************************************)
(* C3.  (as claimed) Whenever total_gain_per_person > 0, a cost of 0       *)
(* included, the run ends without an exception and has computed cppg, roi  *)
(* and the cohort totals.                                                  *)
(***************************************************************************)
C3_NoFaultWhenGainPositive ==
    FGt0(out.total_gain_per_person) =>
        /\ out.fault = "none"
        /\ IsFloat(out.cppg)
        /\ IsFloat(out.roi)
        /\ IsFloat(out.total_cost)
        /\ IsFloat(out.total_gain)
        /\ IsFloat(out.net_gain)

(***************************************************************************)
(* C4.  (as claimed) Whenever cppg and adj_cppg are both numbers,          *)
(* adj_cppg equals cppg / scenario_multiplier.                             *)
(***************************************************************************)
C4_AdjustedEqualsCppgOverMultiplier ==
    (IsFloat(out.cppg) /\ IsFloat(out.adj_cppg)) =>
        out.adj_cppg = FDiv(out.cppg, out.scenario_multiplier)

(***************************************************************************)
(* C4, amended.  adj_cppg is cost_per_person / (total_gain_per_person *    *)
(* scenario_multiplier), each operation rounded.  Whenever cppg, adj_gain, *)
(* adj_cppg and cppg / scenario_multiplier are normal floats, adj_cppg and *)
(* cppg / scenario_multiplier differ by at most 2^-50 of adj_cppg; they    *)
(* need not be equal.                                                      *)
(***************************************************************************)
C4_AdjustedCloseToCppgOverMultiplier ==
    (IsFloat(out.cppg) /\ IsFloat(out.adj_cppg)) =>
        /\ out.adj_cppg =
              FDiv(cost_per_person,
                   FMul(out.total_gain_per_person, out.scenario_multiplier))
        /\ LET q == FDiv(out.cppg, out.scenario_multiplier)
           IN  (/\ IsNormal(out.cppg)
                /\ IsNormal(out.adj_gain)
                /\ IsNormal(out.adj_cppg)
                /\ IsNormal(q)) => Close(out.adj_cppg, q)

\* the two quotients are both normal and differ in the last place
C4_Witness ==
    /\ IsFloat(out.cppg)
    /\ IsFloat(out.adj_cppg)
    /\ IsNormal(out.cppg)
    /\ IsNormal(out.adj_gain)
    /\ IsNormal(out.adj_cppg)
    /\ out.scenario_multiplier = NineTenths
    /\ out.adj_cppg /= FDiv(out.cppg, out.scenario_multiplier)
    /\ Close(out.adj_cppg, FDiv(out.cppg, out.scenario_multiplier))

(***************************************************************************)
(* C5.  (as claimed) When total_gain_per_person > 0 and adj_gain <= 0,     *)
(* adj_cppg is None and the run ends without an exception, having rendered *)
(* cppg, roi and the cohort totals.                                        *)
(***************************************************************************)
C5_UndefinedAdjustedIsNotAFault ==
    (/\ FGt0(out.total_gain_per_person)
     /\ IsFloat(out.adj_gain)
     /\ FLe0(out.adj_gain)) =>
        /\ out.adj_cppg = None
        /\ out.fault = "none"
        /\ {"cppg", "roi", "cohort_totals"} \subseteq out.shown

(***************************************************************************)
(* C6.  When total_gain_per_person <= 0 the run has still computed the     *)
(* three gains, with the values the formulas give.                         *)
(***************************************************************************)
C6_GainsCarriedInFailure ==
    FLe0(out.total_gain_per_person) =>
        /\ "error" \in out.shown
        /\ out.gain_from_math =
              FMul(FMul(math_sd, math_gain_per_sd), FSub(One, fadeout_factor))
        /\ out.gain_from_grad_rate =
              FMul(FDiv(grad_rate_pp, Hundred), earnings_gain_hs_vs_dropout)
        /\ out.gain_from_college =
              FMul(FDiv(college_enroll_pp, Hundred), earnings_gain_college_vs_hs)

\* a failure with a gain that is not zero
C6_Witness ==
    /\ FLe0(out.total_gain_per_person)
    /\ "error" \in out.shown
    /\ out.gain_from_math.k = "num"
    /\ out.gain_from_math.m /= <<>>
    /\ out.gain_from_math.s = -1

(***************************************************************************)
(* C7.  discount_rate is inert: the run from the same widgets with any     *)
(* other discount value has the same outcome in every name but             *)
(* discount_rate itself.                                                   *)
(***************************************************************************)
C7_DiscountRateInert ==
    \A d \in DiscountValues :
        LET other == Script(cost_per_person, population, math_sd, grad_rate_pp,
                            college_enroll_pp, d, math_gain_per_sd,
                            earnings_gain_hs_vs_dropout,
                            earnings_gain_college_vs_hs, fadeout_factor,
                            LastMultiplier)
        IN  [other EXCEPT !.discount_rate = Unset]
              = [out EXCEPT !.discount_rate = Unset]

\* a run with the discount widget changed that went all the way
C7_Witness ==
    /\ discount_input = ThreeAndHalf
    /\ out.discount_rate = FDiv(ThreeAndHalf, Hundred)
    /\ IsFloat(out.adj_cppg)
    /\ out.fault = "none"

(***************************************************************************)
(* C8.  (as claimed) Whenever cppg is a number and population >= 1,        *)
(* cppg < 1 exactly when total_gain_per_person * population -              *)
(* cost_per_person * population > 0.                                       *)
(***************************************************************************)
C8_CppgBelowOneIffNetGainPositive ==
    (IsFloat(out.cppg) /\ population >= 1) =>
        (FLt(out.cppg, One) <=>
            FGt0(FSub(FMul(out.total_gain_per_person, FromInt(population)),
                      FMul(cost_per_person, FromInt(population)))))

(***************************************************************************)
(* C8, amended.  Whenever the run computed the cohort totals and they are  *)
(* finite, net_gain = total_gain - total_cost, a positive net_gain implies *)
(* cppg < 1, and cppg < 1 implies net_gain >= 0 (the two products can      *)
(* round to the same float, and then net_gain is 0 although cppg < 1).     *)
(***************************************************************************)
C8_NetGainSignFollowsCppg ==
    (/\ IsFloat(out.cppg)
     /\ IsFloat(out.net_gain)
     /\ out.total_cost.k = "num"
     /\ out.total_gain.k = "num") =>
        /\ out.net_gain = FSub(out.total_gain, out.total_cost)
        /\ FGt0(out.net_gain) => FLt(out.cppg, One)
        /\ FLt(out.cppg, One) => FLe(Zero, out.net_gain)

\* cppg < 1 with a net gain of exactly zero
C8_Witness ==
    /\ IsFloat(out.cppg)
    /\ FLt(out.cppg, One)
    /\ IsFloat(out.net_gain)
    /\ IsZero(out.net_gain)
    /\ FLt(cost_per_person, out.total_gain_per_person)

(***************************************************************************)
(* C9.  With positive conversion factors and the fade-out in [0,1],        *)
(* raising one effect size and holding the rest fixed never gives a        *)
(* smaller total_gain_per_person.                                          *)
(***************************************************************************)
C9_GainMonotoneInEffects ==
    (/\ FGt0(math_gain_per_sd)
     /\ FGt0(earnings_gain_hs_vs_dropout)
     /\ FGt0(earnings_gain_college_vs_hs)
     /\ FLe(Zero, fadeout_factor)
     /\ FLe(fadeout_factor, One)) =>
        /\ \A v \in MathSdValues :
              FLt(math_sd, v) =>
                  ~FLt(TotalFor(v, grad_rate_pp, college_enroll_pp),
                       out.total_gain_per_person)
        /\ \A v \in GradRatePpValues :
              FLt(grad_rate_pp, v) =>
                  ~FLt(TotalFor(math_sd, v, college_enroll_pp),
                       out.total_gain_per_person)
        /\ \A v \in CollegeEnrollPpValues :
              FLt(college_enroll_pp, v) =>
                  ~FLt(TotalFor(math_sd, grad_rate_pp, v),
                       out.total_gain_per_person)

\* a larger math effect gives a strictly larger gain
C9_Witness ==
    /\ math_sd = MinusTenth
    /\ FGt0(math_gain_per_sd)
    /\ fadeout_factor = DefaultFadeout
    /\ FLt(out.total_gain_per_person,
           TotalFor(DefaultMathSd, grad_rate_pp, college_enroll_pp))

(***************************************************************************)
(* C10.  In every run that reaches the scenario slider,                    *)
(* total_gain_per_person > 0, adj_gain > 0, adj_cppg is a number and its   *)
(* formatting is never applied to None (the run raises no exception).      *)
(* The program breaks this: total_gain_per_person = 2^-1074 times a        *)
(* multiplier of 0.5 rounds to 0.0, line 114 yields None and line 117      *)
(* raises TypeError.                                                       *)
(***************************************************************************)
C10_ScenarioGainAlwaysPositive ==
    "scenario_slider" \in out.shown =>
        /\ FGt0(out.total_gain_per_person)
        /\ FGt0(out.adj_gain)
        /\ IsFloat(out.adj_cppg)
        /\ out.fault = "none"

====
